---- MODULE Spec2Model ----
(***************************************************************************)
(* Model of mwoffliner's fetch-and-normalize engine:                       *)
(*   - RedisKvs.iterateItems / RedisKvs.scan   (src/src/util/redis-kvs.ts) *)
(*   - Downloader throttle, backoff and fetch  (Downloader.ts)             *)
(*   - Downloader continuation merge           (Downloader.ts)             *)
(*   - Downloader.serializeUrl / deserializeUrl (Downloader.ts)            *)
(*   - RedisKvs.get / set / getMany / setMany  (src/src/util/redis-kvs.ts) *)
(*   - Downloader.getArticle                   (Downloader.ts)             *)
(* Each part has its own specification over the shared variables.          *)
(***************************************************************************)
EXTENDS Integers, Sequences, FiniteSets, Bags, TLC

(***************************************************************************)
(* Part 1: RedisKvs                                                        *)
(***************************************************************************)

\* Bounds of the RedisKvs model.
MaxKeys == 3
MaxWorkers == 3
MaxBatch == 2
MaxPasses == 2
MaxScanFailures == 1

VARIABLES
  tableLen,      \* number of keys of the hash (keys are 1..tableLen)
  numWorkers,    \* the numWorkers argument of iterateItems
  scanCursor,    \* RedisKvs.scanCursor; 0 models the string '0'
  pendingScan,   \* scan() calls chained on pendingScan, hscan not yet sent
  chainFailed,   \* pendingScan is a rejected promise
  inflight,      \* hscan requests sent to the store and not yet answered
  hasLooped,     \* the hasLooped flag of the running iterateItems call
  wpc,           \* per worker: "idle" | "scan" | "func" | "done" | "failed"
  passState,     \* "none" | "running" | "resolved" | "rejected"
  passNo,        \* iterateItems calls made so far
  startCursor,   \* scanCursor when the current pass started
  visited,       \* keys passed to func during the current pass
  lastReply,     \* cursor returned by the latest answered hscan
  sentAfterLoop, \* an hscan was sent while hasLooped was already TRUE
  scanFailures   \* hscan errors injected so far

kvsVars == <<tableLen, numWorkers, scanCursor, pendingScan, chainFailed,
             inflight, hasLooped, wpc, passState, passNo, startCursor,
             visited, lastReply, sentAfterLoop, scanFailures>>

VARIABLES
  speed,              \* the configured speed
  useDownloadCache,   \* useDownloadCache (with a downloadCacheDirectory)
  optimisationCacheUrl, \* an optimisationCacheUrl is configured (S3 client)
  activeRequests,     \* Downloader.activeRequests
  maxActiveRequests,  \* Downloader.maxActiveRequests
  fetches,            \* bag of the states of the getJSON/downloadContent calls
  errLeft,            \* failing responses the servers may still give
  last429             \* ceiling before and after the latest 429 response

\* The configuration, which no action changes.
dlConfig == <<speed, useDownloadCache, optimisationCacheUrl>>

dlVars == <<dlConfig, activeRequests, maxActiveRequests,
            fetches, errLeft, last429>>


VARIABLES
  pqVariant,      \* "ids": getArticleDetailsIds, "ns": getArticleDetailsNS
  getCategories,  \* mw.getCategories
  pqPc,           \* "idle" | "query" | "done" | "failed"
  pageNo,         \* responses handled so far by the running call
  result,         \* the accumulator `result` ([defined |-> FALSE] = undefined)
  continuation,   \* keys of continuation / queryContinuation
  gCont,          \* the response carried an allpages.gapcontinue marker
  pagesSeen,      \* the processedResponse of every page, in order
  lastCont,       \* keys of the continuation object of the latest response
  contribution,   \* what the latest page merged into the accumulator
  ret,            \* the mapping returned to the caller
  requests,       \* page queries sent by the running call (getJSON calls)
  subQueries,     \* getSubCategories calls made by the running call
  dbError         \* whether a response carried the DB_ERROR code, and the
                  \* two counters as they were when it arrived

pqVars == <<pqVariant, getCategories, pqPc, pageNo, result, continuation,
            gCont, pagesSeen, lastCont, contribution, ret, requests,
            subQueries, dbError>>

VARIABLES
  urlPartCache,  \* Downloader.urlPartCache: the cacheable part of id i at i
  urlOp,         \* "none" | "serialize" | "roundtrip" | "deserialize"
  urlArg,        \* the url given to serializeUrl / the string given to
                 \* deserializeUrl by the latest call
  urlShort,      \* what the latest serializeUrl returned
  urlRet         \* what the latest deserializeUrl returned

urlVars == <<urlPartCache, urlOp, urlArg, urlShort, urlRet>>

VARIABLES
  hash,     \* the redis hash of the table: the stored string of every key
  written,  \* per key, the value that the latest set / setMany was given
  kvOp,     \* "none" | "set" | "setMany" | "delete" | "get" | "getMany"
  kvKeys,   \* the keys that the latest get / getMany asked for
  kvRet     \* the values that the latest get / getMany delivered

storeVars == <<hash, written, kvOp, kvKeys, kvRet>>

VARIABLES
  forceParsoidFallback,  \* Downloader.forceParsoidFallback, the sticky latch
  mcsAvailable,          \* mwCapabilities.mcsAvailable
  articleCalls           \* the state of every getArticle call of the run

artVars == <<forceParsoidFallback, mcsAvailable, articleCalls>>

VARIABLES
  noLocalParserFallback,  \* Downloader.noLocalParserFallback
  forceLocalParsoid,      \* Downloader.forceLocalParsoid
  parsoidAvailable,       \* mwCapabilities.parsoidAvailable
  coordinatesAvailable,   \* mwCapabilities.coordinatesAvailable
  mcsUrl,                 \* "remote" (the wiki's REST API) | "local" (localhost:6927)
  parsoidFallbackUrl,     \* "remote" (the wiki's api.php) | "local" (localhost:8000)
  capPc,                  \* where checkCapabilities is: "idle" | "mcs" | "parsoid" |
                          \* "services" | "coordinates" | "done" | "rejected"
  probes                  \* per probe, what its getJSON delivered so far

capConfig == <<noLocalParserFallback, forceLocalParsoid>>

capVars == <<capConfig, parsoidAvailable, coordinatesAvailable, mcsUrl,
             parsoidFallbackUrl, capPc, probes>>

vars == <<kvsVars, dlVars, pqVars, urlVars, storeVars, artVars, capVars>>

\* What the actions of one part leave unchanged: the variables of the others.
notKvs == <<dlVars, pqVars, urlVars, storeVars, artVars, capVars>>

notDl == <<kvsVars, pqVars, urlVars, storeVars, artVars, capVars>>

notPq == <<kvsVars, dlVars, urlVars, storeVars, artVars, capVars>>

notUrl == <<kvsVars, dlVars, pqVars, storeVars, artVars, capVars>>

notStore == <<kvsVars, dlVars, pqVars, urlVars, artVars, capVars>>

notArt == <<kvsVars, dlVars, pqVars, urlVars, storeVars, capVars>>

\* checkCapabilities writes mwCapabilities.mcsAvailable, which getArticleUrl reads.
notCap == <<kvsVars, dlVars, pqVars, urlVars, storeVars, forceParsoidFallback,
            articleCalls>>

Workers == 1..MaxWorkers
ActiveWorkers == 1..numWorkers
Keys == 1..tableLen

\* redisClient.hscan(dbName, cursor): a batch of b keys from the cursor on and
\* the next cursor, which is 0 once the end of the table has been reached.
HScanItems(cursor, b) == {k \in Keys : k > cursor /\ k <= cursor + b}

HScanCursor(cursor, b) == IF cursor + b >= tableLen THEN 0 ELSE cursor + b

\* scan(): the callback given to pendingScan.then runs, and so hscan is sent,
\* only when the previous scan promise has been fulfilled.
CanIssueUnchained == pendingScan # <<>>

CanIssue == pendingScan # <<>> /\ inflight = {} /\ ~chainFailed

\* scan() called when pendingScan is rejected (failed) or not: TRUE when
\* pendingScan.then skips its callback, so that the new scan promise is
\* rejected without an hscan request.
ThenSkipsCallbackNever(failed) == FALSE

ThenSkipsCallback(failed) == failed

\* The worker loop after `await this.scan()`: TRUE when the worker returns
\* without handing the batch to func.
ExitsAfterScanEager(looped, cursor) == looped \/ cursor = 0

ExitsAfterScan(looped, cursor) == looped

\* `if (cursor === '0') hasLooped = true`
LoopedAfterScanNever(looped, cursor) == FALSE

LoopedAfterScan(looped, cursor) == looped \/ cursor = 0

KvsInit ==
  /\ tableLen \in 0..MaxKeys
  /\ numWorkers \in 1..MaxWorkers
  /\ scanCursor = 0
  /\ pendingScan = <<>>
  /\ chainFailed = FALSE
  /\ inflight = {}
  /\ hasLooped = FALSE
  /\ wpc = [w \in Workers |-> "idle"]
  /\ passState = "none"
  /\ passNo = 0
  /\ startCursor = 0
  /\ visited = {}
  /\ lastReply = 0
  /\ sentAfterLoop = FALSE
  /\ scanFailures = 0

\* The workers in the order mapLimit starts them.
RECURSIVE SeqOfWorkers(_)
SeqOfWorkers(n) == IF n = 0 THEN <<>> ELSE Append(SeqOfWorkers(n - 1), n)

\* iterateItems(numWorkers, func): hasLooped = false and every worker enters
\* its loop and calls scan().
IterateItems ==
  /\ passState # "running"
  /\ passNo < MaxPasses
  /\ inflight = {} /\ pendingScan = <<>>
  /\ \A w \in Workers : wpc[w] \in {"idle", "done", "failed"}
  /\ passNo' = passNo + 1
  /\ hasLooped' = FALSE
  /\ sentAfterLoop' = FALSE
  /\ visited' = {}
  /\ startCursor' = scanCursor
  /\ IF ThenSkipsCallback(chainFailed)
       THEN /\ wpc' = [w \in Workers |-> IF w \in ActiveWorkers THEN "failed" ELSE "idle"]
            /\ passState' = "rejected"
            /\ UNCHANGED pendingScan
       ELSE /\ wpc' = [w \in Workers |-> IF w \in ActiveWorkers THEN "scan" ELSE "idle"]
            /\ passState' = "running"
            /\ pendingScan' = SeqOfWorkers(numWorkers)
  /\ UNCHANGED <<notKvs, tableLen, numWorkers, scanCursor, chainFailed, inflight,
                 lastReply, scanFailures>>

\* The callback of pendingScan.then: hscan is sent with this.scanCursor.
IssueScan ==
  /\ CanIssue
  /\ inflight' = inflight \cup {[w |-> Head(pendingScan), cursor |-> scanCursor]}
  /\ pendingScan' = Tail(pendingScan)
  /\ sentAfterLoop' = (sentAfterLoop \/ hasLooped)
  /\ UNCHANGED <<notKvs, tableLen, numWorkers, scanCursor, chainFailed, hasLooped, wpc,
                 passState, passNo, startCursor, visited, lastReply, scanFailures>>

\* hscan answers val = [cursor, items]: scanCursor is set, the promise is
\* fulfilled and the awaiting worker runs up to its next await.
ScanReply(r, b) ==
  /\ r \in inflight
  /\ inflight' = inflight \ {r}
  /\ scanCursor' = HScanCursor(r.cursor, b)
  /\ lastReply' = HScanCursor(r.cursor, b)
  /\ IF ExitsAfterScan(hasLooped, HScanCursor(r.cursor, b))
       THEN /\ wpc' = [wpc EXCEPT ![r.w] = "done"]
            /\ UNCHANGED <<hasLooped, visited>>
       ELSE /\ hasLooped' = LoopedAfterScan(hasLooped, HScanCursor(r.cursor, b))
            /\ visited' = visited \cup HScanItems(r.cursor, b)
            /\ wpc' = [wpc EXCEPT ![r.w] = "func"]
  /\ UNCHANGED <<notKvs, tableLen, numWorkers, pendingScan, chainFailed, passState,
                 passNo, startCursor, sentAfterLoop, scanFailures>>

\* hscan answers with an error: the scan promise is rejected, and with it every
\* scan promise already chained behind it; scanCursor is not assigned.
ScanError(r) ==
  /\ r \in inflight
  /\ scanFailures < MaxScanFailures
  /\ scanFailures' = scanFailures + 1
  /\ inflight' = inflight \ {r}
  /\ chainFailed' = TRUE
  /\ wpc' = [w \in Workers |->
               IF w = r.w \/ (\E i \in 1..Len(pendingScan) : pendingScan[i] = w)
                 THEN "failed" ELSE wpc[w]]
  /\ pendingScan' = <<>>
  /\ passState' = "rejected"
  /\ UNCHANGED <<notKvs, tableLen, numWorkers, scanCursor, hasLooped, passNo,
                 startCursor, visited, lastReply, sentAfterLoop>>

\* func(parsedItems, workerId) returns: the worker loops and calls scan(), which
\* is chained behind pendingScan, or rejected at once (without any request)
\* when pendingScan is already rejected.
FuncDone(w) ==
  /\ wpc[w] = "func"
  /\ IF ThenSkipsCallback(chainFailed)
       THEN /\ wpc' = [wpc EXCEPT ![w] = "failed"]
            /\ UNCHANGED pendingScan
       ELSE /\ wpc' = [wpc EXCEPT ![w] = "scan"]
            /\ pendingScan' = Append(pendingScan, w)
  /\ UNCHANGED <<notKvs, tableLen, numWorkers, scanCursor, chainFailed, inflight,
                 hasLooped, passState, passNo, startCursor, visited, lastReply,
                 sentAfterLoop, scanFailures>>

\* mapLimit resolves once every worker has returned.
PassResolves ==
  /\ passState = "running"
  /\ \A w \in ActiveWorkers : wpc[w] = "done"
  /\ passState' = "resolved"
  /\ UNCHANGED <<notKvs, tableLen, numWorkers, scanCursor, pendingScan, chainFailed,
                 inflight, hasLooped, wpc, passNo, startCursor, visited,
                 lastReply, sentAfterLoop, scanFailures>>

KvsNext ==
  \/ IterateItems
  \/ IssueScan
  \/ \E r \in inflight, b \in 1..MaxBatch : ScanReply(r, b)
  \/ \E r \in inflight : ScanError(r)
  \/ \E w \in Workers : FuncDone(w)
  \/ PassResolves


(***************************************************************************)
(* Part 2: Downloader request throttle, backoff and fetch                  *)
(***************************************************************************)

\* Bounds of the Downloader model.
MaxSpeed == 1
MaxFetches == 10
MaxThrottleErrors == 1
MaxBackoffSpeed == 2
MaxBackoffFetches == 1
MaxStoreFetches == 2
MaxStoreErrors == 2

\* backoffOptions.failAfter
FailAfter == 7


Errors == {"ECONNABORTED", "404", "429", "500"}

\* err.response?.status (0: the error carries no response)
Status(e) ==
  CASE e = "404" -> 404
    [] e = "429" -> 429
    [] e = "500" -> 500
    [] OTHER -> 0

\* backoffOptions.retryIf
RetryIfAlways(e) == TRUE

RetryIf(e) == e = "ECONNABORTED" \/ Status(e) # 404

Max(a, b) == IF a >= b THEN a ELSE b

\* Math.max(Math.ceil(maxActiveRequests * 0.9), 1)
ShrinkInverted(c) == Max((10 * c + 8) \div 9, 1)

Shrink(c) == Max((9 * c + 9) \div 10, 1)

\* The ceiling after a failed attempt. getJSONCb hands the rejection to the
\* backoff handler as the second argument of then(), so its catch() block (the
\* one that shrinks on 429) does not run; getContentCb goes through errHandler.
CeilingAfterError(kind, e, c) ==
  IF kind = "content" /\ Status(e) = 429 THEN Shrink(c) ELSE c

\* claimRequest: `if (this.activeRequests < this.maxActiveRequests)`
CanClaimInclusive(active, ceiling) == active <= ceiling

CanClaim(active, ceiling) == active < ceiling

\* releaseRequest: `this.activeRequests -= 1`
ReleaseRequestNoop(active) == active

ReleaseRequest(active) == active - 1

\* The state of one getJSON / downloadContent call:
\*   kind      "json" | "content"
\*   pc        "idle" | "cacheRead" | "claimWait" | "s3get" | "request" |
\*             "backoff" | "cacheWrite" | "done"
\*   n         backoffs made;  err  the latest error;  out  what the caller got
\*   img       isImageUrl(url);  stored  the object store holds a copy for it
\*   origin    requests sent to the origin server (axios calls)
\*   val       what the unit of work passed to its callback
\*   upload    what was given to s3.uploadBlob
\*   cached    writeToDownloadCache has written the files of the url
IdleFetch ==
  [kind |-> "none", pc |-> "idle", n |-> 0, err |-> "none", out |-> "none",
   claims |-> 0, releases |-> 0, img |-> FALSE, stored |-> FALSE,
   origin |-> 0, val |-> "none", upload |-> "none", cached |-> FALSE]

Replace(s, t) == fetches' = (fetches (-) SetToBag({s})) (+) SetToBag({t})

FetchStates == BagToSet(fetches)

DlInit(speeds, caches, stores, nFetches, nErrors) ==
  /\ speed \in speeds
  /\ useDownloadCache \in caches
  /\ optimisationCacheUrl \in stores
  /\ activeRequests = 0
  /\ maxActiveRequests = speed * 10
  /\ fetches = [s \in {IdleFetch} |-> nFetches]
  /\ errLeft = nErrors
  /\ last429 = [kind |-> "none", before |-> 0, after |-> 0]

\* getContentCb: `if (this.optimisationCacheUrl && this.isImageUrl(url))`
S3Path(s) == s.kind = "content" /\ optimisationCacheUrl /\ s.img

\* The unit of work given to backoffCall starts for the call in state s:
\* getContentCb asks the object store first on the S3 path, every other
\* unit of work sends its request to the origin.
StartWork(s) ==
  IF S3Path(s) THEN [s EXCEPT !.pc = "s3get"]
               ELSE [s EXCEPT !.pc = "request", !.origin = @ + 1]

\* claimRequest() called for the call in state s, which continues as t.
ClaimRequest(s, t) ==
  IF CanClaim(activeRequests, maxActiveRequests)
    THEN /\ activeRequests' = activeRequests + 1
         /\ Replace(s, [StartWork(t) EXCEPT !.claims = @ + 1])
    ELSE /\ UNCHANGED activeRequests
         /\ Replace(s, [t EXCEPT !.pc = "claimWait"])

\* getJSON(url): claimRequest, then backoffCall(getJSONCb, ...).
GetJSON ==
  \E s \in FetchStates :
    /\ s.pc = "idle"
    /\ ClaimRequest(s, [s EXCEPT !.kind = "json"])
    /\ UNCHANGED <<notDl, dlConfig, maxActiveRequests, errLeft, last429>>

\* downloadContent(url): the disk cache is read first when it is enabled.
\* img tells whether the url matches the image pattern (looked at only when
\* an object store is configured), stored whether the store holds a copy.
DownloadContent(img, stored) ==
  \E s \in FetchStates :
    /\ s.pc = "idle"
    /\ img => optimisationCacheUrl
    /\ stored => img
    /\ LET t == [s EXCEPT !.kind = "content", !.img = img, !.stored = stored]
       IN IF useDownloadCache
            THEN /\ Replace(s, [t EXCEPT !.pc = "cacheRead"])
                 /\ UNCHANGED activeRequests
            ELSE ClaimRequest(s, t)
    /\ UNCHANGED <<notDl, dlConfig, maxActiveRequests, errLeft, last429>>

\* readFromDownloadCache finds the entry: it is returned, no slot is claimed.
CacheHit ==
  \E s \in FetchStates :
    /\ s.pc = "cacheRead"
    /\ Replace(s, [s EXCEPT !.pc = "done", !.out = "hit"])
    /\ UNCHANGED <<notDl, dlConfig, activeRequests, maxActiveRequests,
                   errLeft, last429>>

\* readFromDownloadCache rejects: download cache miss.
CacheMiss ==
  \E s \in FetchStates :
    /\ s.pc = "cacheRead"
    /\ ClaimRequest(s, s)
    /\ UNCHANGED <<notDl, dlConfig, maxActiveRequests, errLeft, last429>>

\* claimRequest: the 200 ms timer fires and claimRequest is called again.
ClaimRetry ==
  \E s \in FetchStates :
    /\ s.pc = "claimWait"
    /\ ClaimRequest(s, s)
    /\ UNCHANGED <<notDl, dlConfig, maxActiveRequests, errLeft, last429>>

\* The callback given to backoffCall, called with an error: the slot is
\* released and the call rejects with that error.
CallbackError(s, e) ==
  /\ activeRequests' = ReleaseRequest(activeRequests)
  /\ Replace(s, [s EXCEPT !.pc = "done", !.err = e, !.out = e, !.releases = @ + 1])

\* downloadContent's callback, on a value: the test that guards
\* writeToDownloadCache (getJSON's callback never writes the download cache).
WritesDownloadCacheNever(kind, cache) == FALSE

WritesDownloadCache(kind, cache) == kind = "content" /\ cache

\* The callback given to backoffCall, called with the value v (and, on the
\* S3 path, after up was given to uploadBlob): the slot is released;
\* downloadContent then writes the disk cache when it is enabled.
CallbackValue(s, v, up) ==
  /\ activeRequests' = ReleaseRequest(activeRequests)
  /\ LET t == [s EXCEPT !.val = v, !.upload = up, !.releases = @ + 1]
     IN IF WritesDownloadCache(s.kind, useDownloadCache)
          THEN Replace(s, [t EXCEPT !.pc = "cacheWrite"])
          ELSE Replace(s, [t EXCEPT !.pc = "done", !.out = "ok"])

\* The request of getJSONCb, or of getContentCb off the S3 path, succeeds.
ResponseOk ==
  \E s \in FetchStates :
    /\ s.pc = "request"
    /\ ~S3Path(s)
    /\ CallbackValue(s, IF s.kind = "json" THEN "data" ELSE "fetched", "none")
    /\ UNCHANGED <<notDl, dlConfig, maxActiveRequests, errLeft, last429>>

\* s3.downloadIfPossible resolves with the stored copy: it is passed to the
\* callback as it is, no request is sent to the origin.
S3Hit ==
  \E s \in FetchStates :
    /\ s.pc = "s3get"
    /\ s.stored
    /\ CallbackValue(s, "stored", "none")
    /\ UNCHANGED <<notDl, dlConfig, maxActiveRequests, errLeft, last429>>

\* s3.downloadIfPossible resolves with nothing:
\* imageDownloadCompressAndUploadToS3 sends the request to the origin.
S3Miss ==
  \E s \in FetchStates :
    /\ s.pc = "s3get"
    /\ ~s.stored
    /\ Replace(s, [s EXCEPT !.pc = "request", !.origin = @ + 1])
    /\ UNCHANGED <<notDl, dlConfig, activeRequests, maxActiveRequests,
                   errLeft, last429>>

\* imageDownloadCompressAndUploadToS3: compressionWorked
CompressionWorked(mimeImage, smaller) == mimeImage /\ smaller

\* imageDownloadCompressAndUploadToS3: what goes to s3.uploadBlob
Uploaded(etag, compressionWorked) ==
  IF etag THEN (IF compressionWorked THEN "compressed" ELSE "original") ELSE "none"

\* imageDownloadCompressAndUploadToS3: the origin answers.  etag: the response
\* has an ETag; mimeImage: its content type is an image type; smaller: the
\* output of imagemin is shorter than the body.
ImageResponseOk(etag, mimeImage, smaller) ==
  \E s \in FetchStates :
    /\ s.pc = "request"
    /\ S3Path(s)
    /\ CallbackValue(s,
                     IF CompressionWorked(mimeImage, smaller)
                       THEN "compressed" ELSE "original",
                     Uploaded(etag, CompressionWorked(mimeImage, smaller)))
    /\ UNCHANGED <<notDl, dlConfig, maxActiveRequests, errLeft, last429>>

\* The request to the origin, or the lookup in the object store, fails with
\* e: the ceiling may shrink, then the backoff call
\* either schedules a retry (retryIf holds and fewer than failAfter backoffs
\* were made) or calls the callback with e.
ResponseError(e) ==
  \E s \in FetchStates :
    /\ s.pc \in {"request", "s3get"}
    /\ errLeft > 0
    /\ errLeft' = errLeft - 1
    /\ maxActiveRequests' = CeilingAfterError(s.kind, e, maxActiveRequests)
    /\ last429' = IF Status(e) = 429
                    THEN [kind |-> s.kind, before |-> maxActiveRequests,
                          after |-> CeilingAfterError(s.kind, e, maxActiveRequests)]
                    ELSE last429
    /\ IF RetryIf(e) /\ s.n < FailAfter
         THEN /\ Replace(s, [s EXCEPT !.pc = "backoff", !.err = e])
              /\ UNCHANGED activeRequests
         ELSE CallbackError(s, e)
    /\ UNCHANGED <<notDl, dlConfig>>

\* The backoff timer fires: the request is issued again.
BackoffRetry ==
  \E s \in FetchStates :
    /\ s.pc = "backoff"
    /\ Replace(s, [StartWork(s) EXCEPT !.n = @ + 1])
    /\ UNCHANGED <<notDl, dlConfig, activeRequests, maxActiveRequests,
                   errLeft, last429>>

\* writeToDownloadCache succeeds: resolve(val).
CacheWriteOk ==
  \E s \in FetchStates :
    /\ s.pc = "cacheWrite"
    /\ Replace(s, [s EXCEPT !.pc = "done", !.out = "ok", !.cached = TRUE])
    /\ UNCHANGED <<notDl, dlConfig, activeRequests, maxActiveRequests,
                   errLeft, last429>>

\* writeToDownloadCache throws: reject({ message: 'Failed to cache download' }).
CacheWriteFail ==
  \E s \in FetchStates :
    /\ s.pc = "cacheWrite"
    /\ Replace(s, [s EXCEPT !.pc = "done", !.out = "cachefail"])
    /\ UNCHANGED <<notDl, dlConfig, activeRequests, maxActiveRequests,
                   errLeft, last429>>

(***************************************************************************)
(* Part 3: Downloader.getArticleDetailsIds / getArticleDetailsNS            *)
(***************************************************************************)

\* Bounds of the continuation model.
MaxPages == 2

\* The namespace number of category pages, as setArticleSubCategories tests it.
CategoryNs == 14

Articles == {"A", "B"}

\* "B" is a category page, "A" an article of the main namespace.
NsOf(a) == IF a = "B" THEN CategoryNs ELSE 0

ListFields == {"revisions", "coordinates", "categories", "redirects", "subCategories"}

ScalarFields == {"ns", "thumbnail", "pageimage"}

Fields == ListFields \cup ScalarFields

\* A value is a sequence of numbers: a list as it is, a scalar as a sequence of
\* length one.  The entries a page delivers carry the number of the page.
Falsy(f, v) == f \in ScalarFields /\ v = <<0>>

\* The detail of article a in the response number p that carries the fields
\* flds; ns comes with every response, the revision with the first one.
PageDetail(a, p, flds) ==
  [f \in flds \cup {"ns"} \cup (IF p = 1 THEN {"revisions"} ELSE {}) |->
     IF f = "ns" THEN <<NsOf(a)>> ELSE <<p>>]

\* The fields a response may carry for an article, besides ns and revisions.
OptionalFields == {"coordinates"} \cup (IF getCategories THEN {"categories"} ELSE {})

\* The keys the continuation object of a response may have.
ContKeys ==
  IF pqVariant = "ids"
    THEN {"cocontinue"} \cup (IF getCategories THEN {"clcontinue"} ELSE {})
    ELSE {"allpages", "coordinates"} \cup (IF getCategories THEN {"categories"} ELSE {})

\* getArticleDetailsIds: `if (resp.continue)`; getArticleDetailsNS: queryComplete,
\* no key of resp['query-continue'] other than allpages.
IsTerminal(cont) ==
  IF pqVariant = "ids" THEN cont = {} ELSE cont \ {"allpages"} = {}

\* stripNonContinuedProps: propsMap
PropsMap(key) ==
  CASE key = "pageimages" -> {"thumbnail", "pageimage"}
    [] key = "redirects" -> {"redirects"}
    [] key = "coordinates" -> {"coordinates"}
    [] key = "categories" -> {"categories"}
    [] OTHER -> {}

\* stripNonContinuedProps: keysToKeep
KeysToKeep(cont) == {"subCategories"} \cup UNION {PropsMap(key) : key \in cont}

\* stripNonContinuedProps(articleDetails, cont)
StripNonContinuedProps(articleDetails, cont) ==
  [aId \in DOMAIN articleDetails |->
     [key \in {k \in KeysToKeep(cont) :
                 /\ k \in DOMAIN articleDetails[aId]
                 /\ ~Falsy(k, articleDetails[aId][k])} |->
        articleDetails[aId][key]]]

\* `const relevantDetails = this.stripNonContinuedProps(processedResponse)`:
\* the call gives no second argument, so cont takes its default {}.
RelevantDetailsWithCont(processedResponse, cont) ==
  StripNonContinuedProps(processedResponse, cont)

RelevantDetails(processedResponse, cont) ==
  StripNonContinuedProps(processedResponse, {})

\* deepmerge of two details: arrays are concatenated, other values replaced.
DeepMergeDetail(d, e) ==
  [f \in DOMAIN d \cup DOMAIN e |->
     IF f \in DOMAIN d /\ f \in DOMAIN e
       THEN IF f \in ListFields THEN d[f] \o e[f] ELSE e[f]
       ELSE IF f \in DOMAIN e THEN e[f] ELSE d[f]]

\* deepmerge(x, y) of two by-title mappings
DeepMerge(x, y) ==
  [a \in DOMAIN x \cup DOMAIN y |->
     IF a \in DOMAIN x /\ a \in DOMAIN y
       THEN DeepMergeDetail(x[a], y[a])
       ELSE IF a \in DOMAIN y THEN y[a] ELSE x[a]]

\* `result = result === undefined ? x : deepmerge(result, x)`
MergeInto(acc, x) ==
  [defined |-> TRUE, val |-> IF acc.defined THEN DeepMerge(acc.val, x) ELSE x]

\* mwRetToArticleDetail
MwRetToArticleDetail(obj) ==
  [a \in DOMAIN obj |->
     LET val == obj[a]
         has(f) == f \in DOMAIN val
         keys == {f \in {"categories", "subCategories", "thumbnail", "redirects"} : has(f)}
                 \cup (IF has("ns") /\ val["ns"] # <<0>> THEN {"ns"} ELSE {})
                 \cup (IF has("revisions") /\ val["revisions"] # <<>>
                         THEN {"revisionId"} ELSE {})
                 \cup (IF has("coordinates") /\ val["coordinates"] # <<>>
                         THEN {"coordinates"} ELSE {})
     IN [f \in keys |->
           CASE f = "revisionId" -> <<Head(val["revisions"])>>
             [] f = "coordinates" -> <<Head(val["coordinates"])>>
             [] OTHER -> val[f]]]

\* setArticleSubCategories: every detail whose ns is 14 gets the members that
\* getSubCategories returned.
SetArticleSubCategories(articleDetails, members) ==
  [a \in DOMAIN articleDetails |->
     IF "ns" \in DOMAIN articleDetails[a] /\ articleDetails[a]["ns"] = <<CategoryNs>>
       THEN [f \in DOMAIN articleDetails[a] \cup {"subCategories"} |->
               IF f = "subCategories" THEN members ELSE articleDetails[a][f]]
       ELSE articleDetails[a]]

\* The codes that resp.error.code may have ("none": the response has no error)
ErrorCodes == {"none", "other", "DB_ERROR"}

\* handleMWWarningsAndErrors(resp) throws
HandleMWWarningsAndErrorsLogOnly(code) == FALSE

HandleMWWarningsAndErrors(code) == code = "DB_ERROR"

\* dbError after a response with the given code has arrived
DbErrorAfter(code) ==
  IF code = "DB_ERROR"
    THEN [seen |-> TRUE, requests |-> requests, subQueries |-> subQueries]
    ELSE dbError

\* The articles of a response for which setArticleSubCategories calls
\* getSubCategories
CategoryArticles(articleDetails) ==
  {a \in DOMAIN articleDetails :
     "ns" \in DOMAIN articleDetails[a] /\ articleDetails[a]["ns"] = <<CategoryNs>>}

PqInit(variants) ==
  /\ pqVariant \in variants
  /\ getCategories \in BOOLEAN
  /\ pqPc = "idle"
  /\ pageNo = 0
  /\ result = [defined |-> FALSE, val |-> <<>>]
  /\ continuation = {}
  /\ gCont = FALSE
  /\ pagesSeen = <<>>
  /\ lastCont = {}
  /\ contribution = <<>>
  /\ ret = <<>>
  /\ requests = 0
  /\ subQueries = 0
  /\ dbError = [seen |-> FALSE, requests |-> 0, subQueries |-> 0]

\* getArticleDetailsIds(articleIds) / getArticleDetailsNS(ns) is called and
\* sends its first query.
StartQuery ==
  /\ pqPc = "idle"
  /\ pqPc' = "query"
  /\ requests' = 1
  /\ UNCHANGED <<notPq, pqVariant, getCategories, pageNo, result,
                 continuation, gCont, pagesSeen, lastCont, contribution, ret,
                 subQueries, dbError>>

\* The response number pageNo + 1, with more to come: the continuation is kept,
\* the relevant details are merged into the accumulator and the next query is
\* sent.
ContinuedPage(fa, fb, cont, code) ==
  LET processedResponse ==
        [a \in Articles |-> PageDetail(a, pageNo + 1, IF a = "A" THEN fa ELSE fb)]
  IN /\ pqPc = "query"
     /\ pageNo + 1 < MaxPages
     /\ ~HandleMWWarningsAndErrors(code)
     /\ ~IsTerminal(cont)
     /\ pageNo' = pageNo + 1
     /\ pagesSeen' = Append(pagesSeen, processedResponse)
     /\ lastCont' = cont
     /\ gCont' = (pqVariant = "ns" /\ "allpages" \in cont)
     /\ continuation' = cont
     /\ contribution' = RelevantDetails(processedResponse, cont)
     /\ result' = MergeInto(result, RelevantDetails(processedResponse, cont))
     /\ requests' = requests + 1
     /\ dbError' = DbErrorAfter(code)
     /\ UNCHANGED <<notPq, pqVariant, getCategories, pqPc, ret, subQueries>>

\* The last response: sub-categories are fetched when categories are wanted,
\* the whole response is merged and the mapping is returned.
TerminalPage(fa, fb, cont, members, code) ==
  LET raw == [a \in Articles |-> PageDetail(a, pageNo + 1, IF a = "A" THEN fa ELSE fb)]
      processedResponse ==
        IF getCategories THEN SetArticleSubCategories(raw, members) ELSE raw
  IN /\ pqPc = "query"
     /\ ~HandleMWWarningsAndErrors(code)
     /\ IsTerminal(cont)
     /\ pageNo' = pageNo + 1
     /\ pagesSeen' = Append(pagesSeen, raw)
     /\ lastCont' = cont
     /\ gCont' = (pqVariant = "ns" /\ "allpages" \in cont)
     /\ contribution' = processedResponse
     /\ result' = MergeInto(result, processedResponse)
     /\ ret' = MwRetToArticleDetail(MergeInto(result, processedResponse).val)
     /\ pqPc' = "done"
     /\ subQueries' = subQueries +
          (IF getCategories THEN Cardinality(CategoryArticles(raw)) ELSE 0)
     /\ dbError' = DbErrorAfter(code)
     /\ UNCHANGED <<notPq, pqVariant, getCategories, continuation, requests>>

\* The response carries a code on which handleMWWarningsAndErrors throws:
\* the exception leaves the loop and the call rejects.
PageThrows(code) ==
  /\ pqPc = "query"
  /\ HandleMWWarningsAndErrors(code)
  /\ pqPc' = "failed"
  /\ dbError' = DbErrorAfter(code)
  /\ UNCHANGED <<notPq, pqVariant, getCategories, pageNo, result,
                 continuation, gCont, pagesSeen, lastCont, contribution, ret,
                 requests, subQueries>>

\* getJSON rejects, or a sub-category query rejects: the call rejects, nothing
\* is returned.
QueryFails ==
  /\ pqPc = "query"
  /\ pqPc' = "failed"
  /\ UNCHANGED <<notPq, pqVariant, getCategories, pageNo, result,
                 continuation, gCont, pagesSeen, lastCont, contribution, ret,
                 requests, subQueries, dbError>>

PqNext ==
  \/ StartQuery
  \/ \E fa \in SUBSET OptionalFields, fb \in SUBSET OptionalFields,
        cont \in SUBSET ContKeys, code \in ErrorCodes :
          ContinuedPage(fa, fb, cont, code)
  \/ \E fa \in SUBSET OptionalFields, fb \in SUBSET OptionalFields,
        cont \in SUBSET ContKeys, members \in {<<>>, <<0>>}, code \in ErrorCodes :
          TerminalPage(fa, fb, cont, members, code)
  \/ \E code \in ErrorCodes : PageThrows(code)
  \/ QueryFails

(***************************************************************************)
(* Part 4: Downloader.serializeUrl / deserializeUrl                         *)
(***************************************************************************)

\* Bounds of the url model.  A string is a sequence of one-character strings.
MaxHostLen == 2
MaxPathLen == 1
MaxUrlParts == 2
MaxStringLen == 2

HostChars == {"a", "b"}

PathChars == {"a", "_"}

StringChars == {"_", "1", "a"}

\* The sequences over the set chars of a length from lo to hi
SeqsOf(chars, lo, hi) == UNION {[1..n -> chars] : n \in lo..hi}

\* The urls given to serializeUrl: scheme, host and a path that may be
\* missing, "/" alone or longer.
Urls ==
  {<<"h", ":", "/", "/">> \o host \o path :
     host \in SeqsOf(HostChars, 1, MaxHostLen),
     path \in {<<>>} \cup {<<"/">> \o rest : rest \in SeqsOf(PathChars, 0, MaxPathLen)}}

\* t occurs in s at position i
OccursAt(s, t, i) ==
  /\ i + Len(t) - 1 <= Len(s)
  /\ \A j \in 1..Len(t) : s[i + j - 1] = t[j]

\* s.indexOf(t) + 1; 0 when t does not occur in s
IndexOf(s, t) ==
  IF \E i \in 1..Len(s) : OccursAt(s, t, i)
    THEN CHOOSE i \in 1..Len(s) :
           OccursAt(s, t, i) /\ \A j \in 1..(i - 1) : ~OccursAt(s, t, j)
    ELSE 0

\* s.replace(t, ''): the first occurrence of the string t is removed
ReplaceFirst(s, t) ==
  IF IndexOf(s, t) = 0 THEN s
  ELSE SubSeq(s, 1, IndexOf(s, t) - 1) \o SubSeq(s, IndexOf(s, t) + Len(t), Len(s))

\* urlParser.parse(url).path: what follows the host, "/" when nothing does
UrlPath(url) ==
  IF \E i \in 5..Len(url) : url[i] = "/"
    THEN SubSeq(url, CHOOSE i \in 5..Len(url) :
                       url[i] = "/" /\ \A j \in 5..(i - 1) : url[j] # "/",
                Len(url))
    ELSE <<"/">>

\* serializeUrl: cacheablePart
CacheablePart(url) == ReplaceFirst(url, UrlPath(url))

\* String(n) for a cache id
IdString(n) == <<<<"1", "2", "3", "4", "5", "6", "7", "8", "9">>[n]>>

\* serializeUrl: the id of the cache entry whose value is part, 0 when none
CacheEntry(cache, part) ==
  IF \E i \in 1..Len(cache) : cache[i] = part
    THEN CHOOSE i \in 1..Len(cache) :
           cache[i] = part /\ \A j \in 1..(i - 1) : cache[j] # part
    ELSE 0

\* serializeUrl: the cache after the call
CacheAfter(cache, url) ==
  IF CacheEntry(cache, CacheablePart(url)) = 0
    THEN Append(cache, CacheablePart(url)) ELSE cache

\* serializeUrl: the string returned, `_${cacheId}_${path}`
Serialized(cache, url) ==
  <<"_">> \o IdString(CacheEntry(CacheAfter(cache, url), CacheablePart(url)))
         \o <<"_">> \o UrlPath(url)

\* url.split('_'): the position of the second "_" of a string that starts
\* with "_"; Len + 1 when there is none
SecondUnderscore(str) ==
  IF \E i \in 2..Len(str) : str[i] = "_"
    THEN CHOOSE i \in 2..Len(str) :
           str[i] = "_" /\ \A j \in 2..(i - 1) : str[j] # "_"
    ELSE Len(str) + 1

\* this.urlPartCache[cacheId]; undefined is printed as "undefined"
CachedPart(cache, cacheId) ==
  IF \E i \in 1..Len(cache) : IdString(i) = cacheId
    THEN cache[CHOOSE i \in 1..Len(cache) : IdString(i) = cacheId]
    ELSE <<"undefined">>

\* deserializeUrl
Deserialized(cache, str) ==
  IF Len(str) = 0 \/ str[1] # "_" THEN str
  ELSE LET k == SecondUnderscore(str)
           cacheId == SubSeq(str, 2, k - 1)
           path == SubSeq(str, k + 1, Len(str))
       IN CachedPart(cache, cacheId) \o path

UrlInit ==
  /\ urlPartCache = <<>>
  /\ urlOp = "none"
  /\ urlArg = <<>>
  /\ urlShort = <<>>
  /\ urlRet = <<>>

\* serializeUrl(url)
SerializeUrl(url) ==
  /\ Len(CacheAfter(urlPartCache, url)) <= MaxUrlParts
  /\ urlPartCache' = CacheAfter(urlPartCache, url)
  /\ urlOp' = "serialize"
  /\ urlArg' = url
  /\ urlShort' = Serialized(urlPartCache, url)
  /\ urlRet' = <<>>
  /\ UNCHANGED notUrl

\* deserializeUrl(s) for the s that the latest serializeUrl returned
DeserializeUrl ==
  /\ urlOp = "serialize"
  /\ urlOp' = "roundtrip"
  /\ urlRet' = Deserialized(urlPartCache, urlShort)
  /\ UNCHANGED <<notUrl, urlPartCache, urlArg, urlShort>>

\* deserializeUrl(str) for a string from elsewhere
DeserializeString(str) ==
  /\ urlOp' = "deserialize"
  /\ urlArg' = str
  /\ urlShort' = <<>>
  /\ urlRet' = Deserialized(urlPartCache, str)
  /\ UNCHANGED <<notUrl, urlPartCache>>

UrlNext ==
  \/ \E url \in Urls : SerializeUrl(url)
  \/ DeserializeUrl
  \/ \E str \in SeqsOf(StringChars, 0, MaxStringLen) : DeserializeString(str)

(***************************************************************************)
(* Part 5: RedisKvs.get / getMany / set / setMany / delete                  *)
(***************************************************************************)

\* Bounds of the store model.
MaxStoreKeys == 2
MaxValueLen == 1

StoreKeys == 1..MaxStoreKeys

\* The characters of a string value; "q" stands for the double quote.
ValueChars == {"a", "1", "q"}

\* A value is a record of its type t and its text s: the number 1, true, null,
\* the empty object, and the strings over ValueChars.
Values ==
  {[t |-> "number", s |-> <<"1">>], [t |-> "boolean", s |-> <<"true">>],
   [t |-> "null", s |-> <<"null">>], [t |-> "object", s |-> <<"{", "}">>]}
    \cup {[t |-> "string", s |-> str] : str \in SeqsOf(ValueChars, 0, MaxValueLen)}

\* What a get delivers when JSON.parse throws
SyntaxError == [t |-> "SyntaxError", s |-> <<>>]

\* What hget / hmget deliver for a key that the hash does not have
Nil == <<"nil">>

\* The characters of a string inside a JSON text: a double quote is escaped.
RECURSIVE Escaped(_)
Escaped(str) ==
  IF str = <<>> THEN <<>>
  ELSE (IF Head(str) = "q" THEN <<"\\", "q">> ELSE <<Head(str)>>) \o Escaped(Tail(str))

\* JSON.stringify(v)
JsonStringify(v) ==
  IF v.t = "string" THEN <<"q">> \o Escaped(v.s) \o <<"q">> ELSE v.s

\* The string that a JSON string body stands for; SyntaxError for a body with
\* a bare double quote or a dangling backslash.
RECURSIVE Unescaped(_)
Unescaped(body) ==
  IF body = <<>> THEN [ok |-> TRUE, s |-> <<>>]
  ELSE IF Head(body) = "\\"
    THEN IF Len(body) >= 2 /\ body[2] = "q"
           THEN LET r == Unescaped(Tail(Tail(body)))
                IN [ok |-> r.ok, s |-> <<"q">> \o r.s]
           ELSE [ok |-> FALSE, s |-> <<>>]
  ELSE IF Head(body) = "q" THEN [ok |-> FALSE, s |-> <<>>]
  ELSE LET r == Unescaped(Tail(body))
       IN [ok |-> r.ok, s |-> <<Head(body)>> \o r.s]

\* JSON.parse(text); JSON.parse(null) is null
JsonParse(text) ==
  CASE text = Nil -> [t |-> "null", s |-> <<"null">>]
    [] text = <<"1">> -> [t |-> "number", s |-> <<"1">>]
    [] text = <<"true">> -> [t |-> "boolean", s |-> <<"true">>]
    [] text = <<"null">> -> [t |-> "null", s |-> <<"null">>]
    [] text = <<"{", "}">> -> [t |-> "object", s |-> <<"{", "}">>]
    [] Len(text) >= 2 /\ text[1] = "q" /\ text[Len(text)] = "q" ->
         LET r == Unescaped(SubSeq(text, 2, Len(text) - 1))
         IN IF r.ok THEN [t |-> "string", s |-> r.s] ELSE SyntaxError
    [] OTHER -> SyntaxError

\* set / setMany: normalisedVal
NormalisedVal(val) == IF val.t # "string" THEN JsonStringify(val) ELSE val.s

\* The keys of ks in ascending order, as getMany is given them
RECURSIVE KeySeq(_)
KeySeq(ks) ==
  IF ks = {} THEN <<>>
  ELSE LET k == CHOOSE x \in ks : \A y \in ks : x <= y
       IN <<k>> \o KeySeq(ks \ {k})

NoValue == [t |-> "undefined", s |-> <<>>]

StoreInit ==
  /\ hash = [k \in StoreKeys |-> Nil]
  /\ written = [k \in StoreKeys |-> NoValue]
  /\ kvOp = "none"
  /\ kvKeys = <<>>
  /\ kvRet = <<>>

\* set(prop, val)
Set(prop, val) ==
  /\ hash' = [hash EXCEPT ![prop] = NormalisedVal(val)]
  /\ written' = [written EXCEPT ![prop] = val]
  /\ kvOp' = "set"
  /\ kvKeys' = <<>>
  /\ kvRet' = <<>>
  /\ UNCHANGED notStore

\* setMany(val): nothing is sent for an object without keys.
SetMany(val) ==
  /\ hash' = [k \in StoreKeys |->
                IF k \in DOMAIN val THEN NormalisedVal(val[k]) ELSE hash[k]]
  /\ written' = [k \in StoreKeys |-> IF k \in DOMAIN val THEN val[k] ELSE written[k]]
  /\ kvOp' = "setMany"
  /\ kvKeys' = <<>>
  /\ kvRet' = <<>>
  /\ UNCHANGED notStore

\* delete(prop)
Delete(prop) ==
  /\ hash[prop] # Nil
  /\ hash' = [hash EXCEPT ![prop] = Nil]
  /\ written' = [written EXCEPT ![prop] = NoValue]
  /\ kvOp' = "delete"
  /\ kvKeys' = <<>>
  /\ kvRet' = <<>>
  /\ UNCHANGED notStore

\* get(prop): resolve(JSON.parse(val))
Get(prop) ==
  /\ kvOp' = "get"
  /\ kvKeys' = <<prop>>
  /\ kvRet' = <<JsonParse(hash[prop])>>
  /\ UNCHANGED <<notStore, hash, written>>

\* getMany(prop): resolve(val.map((a) => JSON.parse(a)))
GetMany(prop) ==
  /\ kvOp' = "getMany"
  /\ kvKeys' = prop
  /\ kvRet' = [i \in 1..Len(prop) |-> JsonParse(hash[prop[i]])]
  /\ UNCHANGED <<notStore, hash, written>>

StoreNext ==
  \/ \E prop \in StoreKeys, val \in Values : Set(prop, val)
  \/ \E ks \in SUBSET StoreKeys : \E val \in [ks -> Values] : SetMany(val)
  \/ \E prop \in StoreKeys : Delete(prop)
  \/ \E prop \in StoreKeys : Get(prop)
  \/ \E ks \in SUBSET StoreKeys : GetMany(KeySeq(ks))

(***************************************************************************)
(* Part 6: Downloader.getArticle                                            *)
(***************************************************************************)

\* Bound of the getArticle model: the calls of one run.
MaxArticleCalls == 2

ArticleCalls == 1..MaxArticleCalls

\* What an attempt of getArticle can end with: the article is rendered, the
\* backend answers with a document of type api_error, getJSON rejects with a
\* 404 or with another error, or renderArticle throws.
AttemptOutcomes == {"ok", "api_error", "404", "500", "render"}

\* The state of one getArticle call:
\*   pc          "idle" | "fetch" | "done" | "failed"
\*   isMainPage  articleId === dump.mwMetaData.mainPage
\*   force       the forceParsoidFallback parameter of the running invocation
\*   latched     the latch was set when the call was made
\*   reqs        the backend of every request sent, in order
\*   outs        how every finished attempt ended, in order
IdleCall ==
  [pc |-> "idle", isMainPage |-> FALSE, force |-> FALSE, latched |-> FALSE,
   reqs |-> <<>>, outs |-> <<>>]

\* getArticleUrl, without the latch
GetArticleUrlNoLatch(isMainPage, force) ==
  IF (force \/ isMainPage) \/ ~mcsAvailable THEN "fallback" ELSE "primary"

\* getArticleUrl: the backend of the url
GetArticleUrl(isMainPage, force) ==
  IF (force \/ forceParsoidFallback \/ isMainPage) \/ ~mcsAvailable
    THEN "fallback" ELSE "primary"

\* getArticle: the local forceParsoidFallback when the catch block runs; the
\* api_error branch sets it before it throws.
ForceAtCatch(force, outcome) == force \/ outcome = "api_error"

\* getArticle, catch block: the error is thrown again (TRUE) or the call is
\* repeated with forceParsoidFallback = true (FALSE).
Rethrows(force, outcome) ==
  ForceAtCatch(force, outcome) \/ outcome = "404"

ArtInit(capabilities) ==
  /\ forceParsoidFallback = FALSE
  /\ mcsAvailable \in capabilities
  /\ articleCalls = [c \in ArticleCalls |-> IdleCall]

\* getArticle(articleId, dump) is called: the url is chosen and the request
\* is sent.
GetArticle(c, isMainPage) ==
  /\ articleCalls[c].pc = "idle"
  /\ articleCalls' = [articleCalls EXCEPT ![c] =
       [pc |-> "fetch", isMainPage |-> isMainPage, force |-> FALSE,
        latched |-> forceParsoidFallback,
        reqs |-> <<GetArticleUrl(isMainPage, FALSE)>>, outs |-> <<>>]]
  /\ UNCHANGED <<notArt, forceParsoidFallback, mcsAvailable>>

\* getJSON resolves and renderArticle returns: the call returns.
ArticleRendered(c) ==
  /\ articleCalls[c].pc = "fetch"
  /\ articleCalls' = [articleCalls EXCEPT ![c].pc = "done",
                                          ![c].outs = Append(@, "ok")]
  /\ UNCHANGED <<notArt, forceParsoidFallback, mcsAvailable>>

\* The attempt fails: the answer is an api_error document (the latch is set),
\* getJSON rejects or renderArticle throws.  The catch block throws the error
\* again or calls getArticle(articleId, dump, true).
AttemptFails(c, outcome) ==
  LET call == articleCalls[c]
  IN /\ call.pc = "fetch"
     /\ outcome # "ok"
     /\ forceParsoidFallback' = (forceParsoidFallback \/ outcome = "api_error")
     /\ IF Rethrows(call.force, outcome)
          THEN articleCalls' = [articleCalls EXCEPT ![c].pc = "failed",
                                                   ![c].outs = Append(@, outcome)]
          ELSE articleCalls' = [articleCalls EXCEPT
                 ![c].force = TRUE,
                 ![c].outs = Append(@, outcome),
                 ![c].reqs = Append(@, GetArticleUrl(call.isMainPage, TRUE))]
     /\ UNCHANGED <<notArt, mcsAvailable>>

ArtNext ==
  \/ \E c \in ArticleCalls, isMainPage \in BOOLEAN : GetArticle(c, isMainPage)
  \/ \E c \in ArticleCalls : ArticleRendered(c)
  \/ \E c \in ArticleCalls, outcome \in AttemptOutcomes : AttemptFails(c, outcome)

(***************************************************************************)
(* Part 7: Downloader.checkCapabilities                                     *)
(***************************************************************************)

\* What a getJSON of checkCapabilities can deliver: a response that carries
\* what the code looks for ("marked": `lead`, `visualeditor.content`, a
\* warning that names coordinates), a response without it, or a rejection.
ProbeOutcomes == {"marked", "plain", "error"}

Probes == {"mcs", "parsoid", "coordinates"}

\* The constructor: every capability is taken as available, both base urls
\* are those of the wiki.
CapInit(noFallbacks, forceLocals) ==
  /\ noLocalParserFallback \in noFallbacks
  /\ forceLocalParsoid \in forceLocals
  /\ parsoidAvailable = TRUE
  /\ coordinatesAvailable = TRUE
  /\ mcsUrl = "remote"
  /\ parsoidFallbackUrl = "remote"
  /\ capPc = "idle"
  /\ probes = [p \in Probes |-> "none"]

\* The flag a guarded probe leaves: `!!query.lead`, `!!query.visualeditor.content`
\* on a response, false in the catch block.
ProbedAvailable(outcome) == outcome = "marked"

\* The test that sends checkCapabilities to initLocalServices.
UsesLocalServicesMcsOnly(noFallback, mcs, parsoid) == ~noFallback /\ ~mcs

UsesLocalServices(noFallback, mcs, parsoid) == ~noFallback /\ (~mcs \/ ~parsoid)

\* Where checkCapabilities stops after the probes of the two backends: at
\* `await this.initLocalServices()` or at the coordinates query.
AfterBackendProbes(mcs, parsoid) ==
  IF UsesLocalServices(noLocalParserFallback, mcs, parsoid)
    THEN "services" ELSE "coordinates"

\* checkCapabilities() is called: the request for the main page goes to mcsUrl.
CheckCapabilities ==
  /\ capPc = "idle"
  /\ capPc' = "mcs"
  /\ UNCHANGED <<notCap, mcsAvailable, capConfig, parsoidAvailable,
                 coordinatesAvailable, mcsUrl, parsoidFallbackUrl, probes>>

\* The getJSON of the MCS probe settles; with forceLocalParsoid the Parsoid
\* probe is skipped.
McsProbe(outcome) ==
  /\ capPc = "mcs"
  /\ mcsAvailable' = ProbedAvailable(outcome)
  /\ probes' = [probes EXCEPT !["mcs"] = outcome]
  /\ capPc' = IF forceLocalParsoid
                THEN AfterBackendProbes(mcsAvailable', parsoidAvailable)
                ELSE "parsoid"
  /\ UNCHANGED <<notCap, capConfig, parsoidAvailable, coordinatesAvailable,
                 mcsUrl, parsoidFallbackUrl>>

\* The getJSON of the Parsoid probe settles.
ParsoidProbe(outcome) ==
  /\ capPc = "parsoid"
  /\ parsoidAvailable' = ProbedAvailable(outcome)
  /\ probes' = [probes EXCEPT !["parsoid"] = outcome]
  /\ capPc' = AfterBackendProbes(mcsAvailable, parsoidAvailable')
  /\ UNCHANGED <<notCap, mcsAvailable, capConfig, coordinatesAvailable,
                 mcsUrl, parsoidFallbackUrl>>

\* initLocalServices resolves: mcsUrl becomes the local one, parsoidFallbackUrl
\* too when Parsoid is not available; then the coordinates query is sent.
LocalServicesStarted ==
  /\ capPc = "services"
  /\ mcsUrl' = "local"
  /\ parsoidFallbackUrl' = IF ~parsoidAvailable THEN "local" ELSE parsoidFallbackUrl
  /\ capPc' = "coordinates"
  /\ UNCHANGED <<notCap, mcsAvailable, capConfig, parsoidAvailable,
                 coordinatesAvailable, probes>>

\* initLocalServices rejects: so does checkCapabilities.
LocalServicesFail ==
  /\ capPc = "services"
  /\ capPc' = "rejected"
  /\ UNCHANGED <<notCap, mcsAvailable, capConfig, parsoidAvailable,
                 coordinatesAvailable, mcsUrl, parsoidFallbackUrl, probes>>

\* The getJSON of the coordinates query settles.  It is awaited outside of
\* any try block: a rejection rejects checkCapabilities.
CoordinatesQuery(outcome) ==
  /\ capPc = "coordinates"
  /\ probes' = [probes EXCEPT !["coordinates"] = outcome]
  /\ coordinatesAvailable' = IF outcome = "marked" THEN FALSE
                                                  ELSE coordinatesAvailable
  /\ capPc' = IF outcome = "error" THEN "rejected" ELSE "done"
  /\ UNCHANGED <<notCap, mcsAvailable, capConfig, parsoidAvailable, mcsUrl,
                 parsoidFallbackUrl>>

CapNext ==
  \/ CheckCapabilities
  \/ \E outcome \in ProbeOutcomes : McsProbe(outcome)
  \/ \E outcome \in ProbeOutcomes : ParsoidProbe(outcome)
  \/ LocalServicesStarted
  \/ LocalServicesFail
  \/ \E outcome \in ProbeOutcomes : CoordinatesQuery(outcome)

(***************************************************************************)
(* Specifications                                                          *)
(***************************************************************************)

KvsIdle ==
  /\ tableLen = 0 /\ numWorkers = 1 /\ scanCursor = 0 /\ pendingScan = <<>>
  /\ chainFailed = FALSE /\ inflight = {} /\ hasLooped = FALSE
  /\ wpc = [w \in Workers |-> "idle"] /\ passState = "none" /\ passNo = 0
  /\ startCursor = 0 /\ visited = {} /\ lastReply = 0
  /\ sentAfterLoop = FALSE /\ scanFailures = 0

DlIdle == DlInit({1}, {FALSE}, {FALSE}, 0, 0)

PqIdle == PqInit({"ids"}) /\ getCategories = FALSE

ArtIdle == ArtInit({TRUE})

CapIdle == CapInit({FALSE}, {FALSE})

\* checkCapabilities has resolved, with Parsoid found available and the MCS
\* probe having left mcsAvailable as it is.
CapChecked ==
  /\ noLocalParserFallback = FALSE
  /\ forceLocalParsoid = FALSE
  /\ parsoidAvailable = TRUE
  /\ coordinatesAvailable = TRUE
  /\ mcsUrl = (IF mcsAvailable THEN "remote" ELSE "local")
  /\ parsoidFallbackUrl = "remote"
  /\ capPc = "done"
  /\ probes = [p \in Probes |-> IF p = "coordinates" THEN "plain"
                                 ELSE IF p = "mcs" /\ ~mcsAvailable THEN "error"
                                 ELSE "marked"]

\* RedisKvs: passes of iterateItems over one table.
InitKvs == KvsInit /\ DlIdle /\ PqIdle /\ UrlInit /\ StoreInit /\ ArtIdle /\ CapIdle

SpecKvs == InitKvs /\ [][KvsNext]_vars

\* RedisKvs: passes in which every hscan request succeeds.  The store answers
\* every request, func returns, and the event loop runs every callback that
\* is ready: each of these steps is taken once it stays enabled.  Calling
\* iterateItems is up to the caller.
InitKvsLive == KvsInit /\ DlIdle /\ PqIdle /\ UrlInit /\ StoreInit /\ ArtIdle /\ CapIdle

NextKvsLive ==
  \/ IterateItems
  \/ IssueScan
  \/ \E r \in inflight, b \in 1..MaxBatch : ScanReply(r, b)
  \/ \E w \in Workers : FuncDone(w)
  \/ PassResolves

FairKvsLive ==
  /\ WF_vars(IssueScan)
  /\ WF_vars(\E r \in inflight, b \in 1..MaxBatch : ScanReply(r, b))
  /\ \A w \in Workers : WF_vars(FuncDone(w))
  /\ WF_vars(PassResolves)

SpecKvsLive == InitKvsLive /\ [][NextKvsLive]_vars /\ FairKvsLive

\* Downloader: many concurrent calls, few failing responses, no disk cache
\* and no object store (so their steps are never enabled).
InitThrottle ==
  /\ KvsIdle /\ PqIdle /\ UrlInit /\ StoreInit /\ ArtIdle /\ CapIdle
  /\ DlInit(1..MaxSpeed, {FALSE}, {FALSE}, MaxFetches, MaxThrottleErrors)

NextThrottle ==
  \/ GetJSON
  \/ \E img \in BOOLEAN, stored \in BOOLEAN : DownloadContent(img, stored)
  \/ ClaimRetry
  \/ ResponseOk
  \/ \E e \in Errors : ResponseError(e)
  \/ BackoffRetry

SpecThrottle == InitThrottle /\ [][NextThrottle]_vars

\* Downloader: few concurrent calls (the ceiling is never met, so no call waits
\* for a slot), enough failing responses to exhaust the backoff, no object
\* store.
InitBackoff ==
  /\ KvsIdle /\ PqIdle /\ UrlInit /\ StoreInit /\ ArtIdle /\ CapIdle
  /\ DlInit(1..MaxBackoffSpeed, BOOLEAN, {FALSE}, MaxBackoffFetches, FailAfter + 1)

NextBackoff ==
  \/ GetJSON
  \/ \E img \in BOOLEAN, stored \in BOOLEAN : DownloadContent(img, stored)
  \/ CacheHit
  \/ CacheMiss
  \/ ResponseOk
  \/ \E e \in Errors : ResponseError(e)
  \/ BackoffRetry
  \/ CacheWriteOk
  \/ CacheWriteFail

SpecBackoff == InitBackoff /\ [][NextBackoff]_vars

\* Downloader: calls of a downloader that has an object store, with and
\* without the disk cache, and a few failing responses.
InitObjectStore ==
  /\ KvsIdle /\ PqIdle /\ UrlInit /\ StoreInit /\ ArtIdle /\ CapIdle
  /\ DlInit({1}, BOOLEAN, {TRUE}, MaxStoreFetches, MaxStoreErrors)

NextObjectStore ==
  \/ GetJSON
  \/ \E img \in BOOLEAN, stored \in BOOLEAN : DownloadContent(img, stored)
  \/ CacheHit
  \/ CacheMiss
  \/ ResponseOk
  \/ S3Hit
  \/ S3Miss
  \/ \E etag \in BOOLEAN, mimeImage \in BOOLEAN, smaller \in BOOLEAN :
        ImageResponseOk(etag, mimeImage, smaller)
  \/ \E e \in Errors : ResponseError(e)
  \/ BackoffRetry
  \/ CacheWriteOk
  \/ CacheWriteFail

SpecObjectStore == InitObjectStore /\ [][NextObjectStore]_vars

\* Downloader: one paginated metadata query.
InitPages ==
  KvsIdle /\ DlIdle /\ UrlInit /\ StoreInit /\ ArtIdle /\ CapIdle /\ PqInit({"ids", "ns"})

SpecPages == InitPages /\ [][PqNext]_vars

\* Downloader: the url shorthand of one run.
InitUrl == KvsIdle /\ DlIdle /\ PqIdle /\ UrlInit /\ StoreInit /\ ArtIdle /\ CapIdle

SpecUrl == InitUrl /\ [][UrlNext]_vars

\* RedisKvs: the direct operations on one table.
InitStore == KvsIdle /\ DlIdle /\ PqIdle /\ UrlInit /\ StoreInit /\ ArtIdle /\ CapIdle

SpecStore == InitStore /\ [][StoreNext]_vars

\* Downloader: the getArticle calls of one run, with the mobile-rendering
\* backend available or not.
InitArticle ==
  /\ KvsIdle /\ DlIdle /\ PqIdle /\ UrlInit /\ StoreInit
  /\ ArtInit(BOOLEAN) /\ CapChecked

SpecArticle == InitArticle /\ [][ArtNext]_vars

\* One checkCapabilities call under every setting of the two switches.
InitCapabilities ==
  /\ KvsIdle /\ DlIdle /\ PqIdle /\ UrlInit /\ StoreInit /\ ArtIdle
  /\ CapInit(BOOLEAN, BOOLEAN)

SpecCapabilities == InitCapabilities /\ [][CapNext]_vars

(***************************************************************************)
(* Claims                                                                  *)
(***************************************************************************)

\* C1: a pass of iterateItems that started with the shared cursor at the start
\* position has passed every key of the (unmodified) table to func by the time
\* it resolves, for every worker count.
C1_ScanCompleteness ==
  (passState = "resolved" /\ startCursor = 0) => visited = Keys

C1_Witness ==
  /\ passState = "resolved" /\ startCursor = 0
  /\ tableLen >= 2 /\ numWorkers >= 2
  /\ visited = Keys

\* C2 (as stated): once a scan has reported the wraparound cursor, no further
\* hscan request is sent to the backing store during the pass.
C2_NoScanAfterWraparound == ~sentAfterLoop

\* C3: at most one hscan request is in flight, and it was sent with the cursor
\* that the previously answered hscan returned.
C3_ScansSerialized ==
  /\ Cardinality(inflight) <= 1
  /\ \A r \in inflight : r.cursor = lastReply

C3_Witness ==
  \E r \in inflight : r.cursor > 0 /\ Len(pendingScan) >= 1

\* C4 (as stated): in every reachable state the in-flight count activeRequests
\* is at most the current ceiling maxActiveRequests, shrinks included.
C4_ThrottleBound == activeRequests <= maxActiveRequests

\* C4 (amended): the ceiling bounds admission.  Every step that raises
\* activeRequests leaves it at most the current ceiling, and activeRequests
\* never exceeds the initial ceiling speed * 10; a shrink does not wait for
\* the requests already in flight.
C4_AdmissionBound ==
  /\ [](activeRequests <= speed * 10)
  /\ [][activeRequests' > activeRequests =>
          activeRequests' <= maxActiveRequests']_vars

C4_Witness ==
  /\ maxActiveRequests < speed * 10
  /\ activeRequests = maxActiveRequests
  /\ \E s \in FetchStates : s.pc = "claimWait"

C6_ShrinkOn429 ==
  /\ last429.kind # "none" => last429.after = Shrink(last429.before)
  /\ \A s \in FetchStates :
       (s.err = "429" /\ s.pc = "done" /\ s.out \notin Errors) => s.out = "ok"

\* C7: a unit of work is retried at most failAfter = 7 times, after which the
\* error of the last attempt is surfaced; an error with status 404 is surfaced
\* at once and never retried.
C7_BackoffTermination ==
  \A s \in FetchStates :
    /\ s.n <= FailAfter
    /\ s.err = "404" => (s.pc = "done" /\ s.out = "404")
    /\ (s.pc = "done" /\ s.out \in Errors) =>
         (s.out = s.err /\ (s.out = "404" \/ s.n = FailAfter))

C7_Witness ==
  \E s \in FetchStates :
    s.pc = "done" /\ s.n = FailAfter /\ s.out \in Errors \ {"404"}

\* C8: a call that claimed a slot holds it while its fetch runs and has
\* released it exactly once when the fetch has finished, on success and on
\* failure; when no fetch is outstanding the in-flight count is 0.
C8_SlotReleasedOnce ==
  /\ \A s \in FetchStates :
       /\ s.claims <= 1 /\ s.releases <= s.claims
       /\ s.pc \in {"request", "backoff"} => (s.claims = 1 /\ s.releases = 0)
       /\ s.pc \in {"done", "cacheWrite"} => s.releases = s.claims
  /\ (\A s \in FetchStates : s.pc \in {"idle", "done"}) => activeRequests = 0

C8_Witness ==
  /\ \A s \in FetchStates : s.pc = "done" /\ s.claims = 1
  /\ \E s \in FetchStates : s.kind = "json" /\ s.out = "ok"
  /\ \E s \in FetchStates : s.kind = "content" /\ s.out \in Errors
  /\ activeRequests = 0

\* The fields of the modules that a continuation object names: the per-module
\* keys of query-continue, or the xxcontinue keys of continue.
NamedFields(cont) ==
  UNION {PropsMap(key) : key \in cont}
    \cup (IF "cocontinue" \in cont THEN {"coordinates"} ELSE {})
    \cup (IF "clcontinue" \in cont THEN {"categories"} ELSE {})
    \cup (IF "picontinue" \in cont THEN {"thumbnail", "pageimage"} ELSE {})
    \cup (IF "rdcontinue" \in cont THEN {"redirects"} ELSE {})

\* C9 (as stated): on a non-terminal page the contribution merged into the
\* accumulator holds, for each article, the fields of the modules that the
\* continuation token of the page names, and no field of another module.
C9_WhitelistFollowsToken ==
  (pqPc = "query" /\ pageNo >= 1) =>
    \A a \in Articles, f \in Fields :
      LET page == pagesSeen[pageNo][a]
      IN /\ (f \in NamedFields(lastCont) /\ f \in DOMAIN page) =>
              (f \in DOMAIN contribution[a] /\ contribution[a][f] = page[f])
         /\ (f \notin NamedFields(lastCont) /\ f # "subCategories") =>
              f \notin DOMAIN contribution[a]

\* The categories that the pages delivered for article a, in page order.
RECURSIVE CategoriesDelivered(_, _)
CategoriesDelivered(a, n) ==
  IF n = 0 THEN <<>>
  ELSE CategoriesDelivered(a, n - 1) \o
         (IF "categories" \in DOMAIN pagesSeen[n][a]
            THEN pagesSeen[n][a]["categories"] ELSE <<>>)

\* C10 (as stated): when the category list of B comes in two pages (the
\* continuation of the first page names the categories module) and
\* everything of A comes in the first page, the record returned for B holds
\* the categories of both pages and the record returned for A is the one a
\* single-page answer would have given.
C10_FullCategoryList ==
  (/\ pqPc = "done" /\ pageNo = 2
   /\ "categories" \in NamedFields(continuation)
   /\ "categories" \in DOMAIN pagesSeen[1]["B"]
   /\ "categories" \in DOMAIN pagesSeen[2]["B"]
   /\ DOMAIN pagesSeen[2]["A"] = {"ns"}) =>
     /\ "categories" \in DOMAIN ret["B"]
     /\ ret["B"]["categories"] = CategoriesDelivered("B", 2)
     /\ ret["A"] = MwRetToArticleDetail(pagesSeen[1])["A"]

\* C11 (as stated): merging the contribution of a page into the accumulator a
\* second time gives the accumulator that merging it once gave: no list field
\* gets a duplicated entry and every scalar field keeps its value.
C11_MergeIdempotent ==
  (pqPc \in {"query", "done"} /\ pageNo >= 1) =>
    MergeInto(result, contribution) = result

\* C13 (as stated): with the disk cache enabled, a downloadContent call whose
\* fetch succeeded returns the content and headers to its caller, also when
\* the write of the cache entry failed.
C13_CacheWriteNonFatal ==
  \A s \in FetchStates :
    (/\ useDownloadCache /\ s.kind = "content" /\ s.pc = "done"
     /\ s.releases = 1 /\ s.out \notin Errors) => s.out = "ok"

\* C14 (as stated): with an object store configured, a url that matches the
\* image pattern and a copy held by the store, a downloadContent call whose
\* lookup was answered sends no request to the origin and returns the stored
\* bytes and headers.
C14_StoredCopyReturned ==
  \A s \in FetchStates :
    (/\ optimisationCacheUrl /\ s.kind = "content" /\ s.img /\ s.stored
     /\ s.pc = "done" /\ s.claims = 1 /\ s.out \notin Errors) =>
      /\ s.origin = 0
      /\ s.val = "stored"
      /\ s.out = "ok"

\* The string has the form _<id>_<path> for an id that serializeUrl gave out.
InShorthandForm(cache, str) ==
  /\ Len(str) >= 3
  /\ str[1] = "_"
  /\ \E i \in 1..Len(cache) :
       SubSeq(str, 2, SecondUnderscore(str) - 1) = IdString(i)
  /\ SecondUnderscore(str) <= Len(str)

\* C12 (as stated): deserializeUrl(serializeUrl(u)) = u for every url u, the
\* urls whose path is "/" or occurs earlier in the url included, and
\* deserializeUrl returns a string that is not of the form _<id>_<path> as it
\* got it.
C12_UrlRoundTrip ==
  /\ urlOp = "roundtrip" => urlRet = urlArg
  /\ (urlOp = "deserialize" /\ ~InShorthandForm(urlPartCache, urlArg)) =>
       urlRet = urlArg

\* C17 (as stated): get and getMany deliver, for every key that was written,
\* the value that the latest set or setMany gave it, plain strings included.
C17_StoreRoundTrip ==
  kvOp \in {"get", "getMany"} =>
    \A i \in 1..Len(kvKeys) :
      written[kvKeys[i]] # NoValue => kvRet[i] = written[kvKeys[i]]

\* C16: once a response of getArticleDetailsIds or getArticleDetailsNS has
\* carried the database error code, the call has failed: no page query and no
\* sub-category query was sent after that response, the failing page was not
\* asked for again, nothing was merged from it and nothing is returned.
C16_DbErrorAborts ==
  dbError.seen =>
    /\ pqPc = "failed"
    /\ requests = dbError.requests
    /\ subQueries = dbError.subQueries
    /\ requests = pageNo + 1
    /\ ret = <<>>

C16_Witness ==
  /\ dbError.seen /\ pqPc = "failed"
  /\ pageNo = 1 /\ result.defined /\ getCategories

\* A getArticle call has returned or thrown.
Finished(call) == call.pc \in {"done", "failed"}

\* C15: the latch is set as soon as an attempt of a getArticle call has ended
\* with an api_error answer, it is never reset, and every request of a call
\* made while the latch is set goes to the fallback backend.
C15_StickyLatch ==
  /\ [](\A c \in ArticleCalls :
          LET call == articleCalls[c]
          IN /\ (\E i \in 1..Len(call.outs) : call.outs[i] = "api_error") =>
                  forceParsoidFallback
             /\ call.latched =>
                  \A i \in 1..Len(call.reqs) : call.reqs[i] = "fallback")
  /\ [][forceParsoidFallback => forceParsoidFallback']_vars

C15_Witness ==
  \E c \in ArticleCalls :
    /\ articleCalls[c].latched /\ ~articleCalls[c].isMainPage /\ mcsAvailable
    /\ articleCalls[c].pc = "done"
    /\ articleCalls[c].reqs = <<"fallback">>

\* C18 (as stated): a getArticle call whose request to the primary backend
\* was answered with an api_error document sets the latch and makes exactly
\* one further request, to the fallback backend.
C18_ApiErrorRetriedOnce ==
  \A c \in ArticleCalls :
    LET call == articleCalls[c]
    IN (/\ Finished(call)
        /\ call.reqs[1] = "primary" /\ call.outs[1] = "api_error") =>
         /\ forceParsoidFallback
         /\ Len(call.reqs) = 2
         /\ call.reqs[2] = "fallback"

\* C19 (as stated): a getArticle call whose first request went to the
\* fallback backend and failed throws that failure without a second request.
C19_NoRetryOnFallback ==
  \A c \in ArticleCalls :
    LET call == articleCalls[c]
    IN (/\ Len(call.outs) >= 1
        /\ call.reqs[1] = "fallback" /\ call.outs[1] # "ok") =>
         /\ call.pc = "failed"
         /\ Len(call.reqs) = 1

\* C20 (as stated): a getArticle call whose attempt on the primary backend
\* failed with an error other than a 404 makes exactly one further request,
\* to the fallback backend, and throws when that one fails; after a 404 it
\* throws with no further request; no call sends more than two requests.
C20_OneFallbackRetry ==
  \A c \in ArticleCalls :
    LET call == articleCalls[c]
    IN /\ Len(call.reqs) <= 2
       /\ (/\ Finished(call)
           /\ call.reqs[1] = "primary" /\ call.outs[1] \notin {"ok", "404"}) =>
            /\ Len(call.reqs) = 2
            /\ call.reqs[2] = "fallback"
            /\ call.outs[2] # "ok" => call.pc = "failed"
       /\ (Finished(call) /\ call.outs[1] = "404") =>
            (call.pc = "failed" /\ Len(call.reqs) = 1)

\* C25 (as stated): when a pass of iterateItems has resolved, scanCursor is
\* back at the start position 0, and so a second pass over the unchanged
\* table has passed every key to func by the time it resolves.
C25_CursorBackAtStart ==
  passState = "resolved" =>
    /\ scanCursor = 0
    /\ visited = Keys

\* C26: once the store has rejected a scan, every scan call is rejected
\* without an hscan request (none is queued, none is in flight, no worker
\* waits for one), the chain stays rejected, and scanCursor keeps the value it
\* had before the failed scan.
C26_RejectedChainStaysRejected ==
  /\ [](chainFailed =>
          /\ inflight = {} /\ pendingScan = <<>>
          /\ \A w \in Workers : wpc[w] # "scan")
  /\ [][chainFailed' => (scanCursor' = scanCursor /\ inflight' \subseteq inflight)]_vars
  /\ [][chainFailed => chainFailed']_vars

C26_Witness ==
  /\ chainFailed /\ passNo = 2 /\ passState = "rejected"
  /\ scanCursor > 0 /\ numWorkers >= 2
  /\ \A w \in ActiveWorkers : wpc[w] = "failed"

C23_UploadOnlyCompressed ==
  \A s \in FetchStates :
    /\ s.upload \in {"none", "compressed"}
    /\ s.upload = "compressed" => s.val = "compressed"
    /\ s.val = "original" => s.upload = "none"

\* C24: a downloadContent call answered from the download cache has claimed
\* no slot, sent nothing to the origin and got nothing from the object store,
\* and the step that answers it leaves activeRequests as it was; with the
\* download cache enabled, a downloadContent call that resolves with a value
\* from the network has written the cache entry first.
C24_CacheShortCircuit ==
  /\ [](\A s \in FetchStates :
         /\ s.out = "hit" =>
              /\ useDownloadCache /\ s.kind = "content"
              /\ s.claims = 0 /\ s.releases = 0 /\ s.origin = 0
              /\ s.val = "none" /\ s.upload = "none"
         /\ (useDownloadCache /\ s.kind = "content" /\ s.out = "ok") =>
              (s.cached /\ s.val # "none"))
  /\ [][CacheHit => activeRequests' = activeRequests]_vars

C24_Witness ==
  /\ \E s \in FetchStates : s.out = "hit" /\ s.pc = "done"
  /\ \E s \in FetchStates : s.out = "ok" /\ s.kind = "content" /\ s.cached
                               /\ s.origin > 0

\* checkCapabilities is past its local-fallback step.
PastFallbackStep == capPc \in {"coordinates", "done"} \/ probes["coordinates"] # "none"

\* C21 (as stated): a probe of checkCapabilities whose request fails leaves its
\* capability flag false, and checkCapabilities does not reject because of it.
C21_ProbeFailureNonFatal ==
  /\ probes["mcs"] = "error" => ~mcsAvailable
  /\ probes["parsoid"] = "error" => ~parsoidAvailable
  /\ probes["coordinates"] = "error" =>
       (~coordinatesAvailable /\ capPc # "rejected")

\* C22 (as stated): with local fallback not disabled, once checkCapabilities is
\* past its fallback step, mcsUrl is the local one exactly when the MCS probe
\* found MCS unavailable and parsoidFallbackUrl is the local one exactly when
\* the Parsoid probe found Parsoid unavailable.
C22_SwitchedExactlyWhenUnavailable ==
  (~noLocalParserFallback /\ PastFallbackStep) =>
    /\ mcsUrl = "local" <=> ~mcsAvailable
    /\ parsoidFallbackUrl = "local" <=> ~parsoidAvailable

\* C22 (amended): with local fallback not disabled, once checkCapabilities is
\* past its fallback step, mcsUrl is the local one exactly when at least one
\* of the two backends was found unavailable, and parsoidFallbackUrl is the
\* local one exactly when Parsoid was found unavailable; with local fallback
\* disabled both urls stay the remote ones.
C22_SwitchedWhenEitherUnavailable ==
  /\ (~noLocalParserFallback /\ PastFallbackStep) =>
       /\ mcsUrl = "local" <=> (~mcsAvailable \/ ~parsoidAvailable)
       /\ parsoidFallbackUrl = "local" <=> ~parsoidAvailable
  /\ noLocalParserFallback => (mcsUrl = "remote" /\ parsoidFallbackUrl = "remote")

C22_Witness ==
  /\ ~noLocalParserFallback /\ capPc = "done"
  /\ mcsAvailable /\ ~parsoidAvailable
  /\ mcsUrl = "local" /\ parsoidFallbackUrl = "local"

====
